---- MODULE Spec2Model ----
(***************************************************************************)
(* expo-plugin-worklet-cleanup: the config plugin that patches the Swift   *)
(* AppDelegate of an Expo app (src/src/index.ts).                          *)
(*                                                                         *)
(* A text is a sequence of lexical units.  A unit is either a single       *)
(* character ("\n", " ", "}", "x") or a run of characters that the plugin  *)
(* can only see as a whole: one of the words it searches for, or a run of  *)
(* ordinary template text that contains no "\n", no "}" and none of those  *)
(* words, and that neither starts nor ends with white space.  The regular  *)
(* expressions of the plugin are evaluated on these units as the           *)
(* JavaScript engine evaluates them on the characters.                     *)
(***************************************************************************)
EXTENDS Integers, Sequences, FiniteSets, TLC

VARIABLES
    language,      \* appDelegate.language
    contents,      \* appDelegate.contents
    original,      \* the contents before the first run of the mod
    input,         \* the contents the last run of the mod was given
    outcome,       \* the return statement the last run left through
    diagnostics    \* what the last run wrote to the console

vars == <<language, contents, original, input, outcome, diagnostics>>

-----------------------------------------------------------------------------
(* Lexical units                                                           *)

NL == "\n"
SP == " "
RB == "}"
LB == "{"
OTHER_CHAR == "x"
TERMINATE == "applicationWillTerminate"
BACKGROUND == "applicationDidEnterBackground"
CLASS_KW == "class "
RN_DELEGATE == "ReactNativeDelegate"
CONTINUE_USER_ACTIVITY == "continue userActivity: NSUserActivity,"
RETURN_KW == "return"

\* \s of the regular expressions
IsSpace(t) == t \in {NL, SP}

\* Number of characters of the template-text units of CLEANUP_METHODS
TemplateWidth ==
        "(_ application: UIApplication) {" :> 32 @@
        "(application)" :> 13 @@
        "// Added by expo-plugin-worklet-cleanup" :> 39 @@
        "// Background notification to allow native modules to prepare for potential termination" :> 87 @@
        "// Cleanup on app termination to prevent worklet crashes during force-quit" :> 74 @@
        "// Native modules can listen to this to pause operations gracefully" :> 67 @@
        "// Note: This is NOT reliably called on iOS 13+ for app switcher kills" :> 70 @@
        "// Notify the bridge to invalidate and cancel pending worklet operations" :> 72 @@
        "// Post notification that app is entering background" :> 52 @@
        "NotificationCenter.default.post(" :> 32 @@
        "name: NSNotification.Name(\"RCTBridgeWillInvalidateNotification\")," :> 65 @@
        "name: NSNotification.Name(\"RNAppDidEnterBackground\")," :> 53 @@
        "object: self" :> 12 @@
        "public override func" :> 20 @@
        "super." :> 6

\* Number of characters of a unit (String.prototype.indexOf counts characters)
Width(t) ==
    CASE t \in {NL, SP, RB, LB, OTHER_CHAR} -> 1
      [] t = TERMINATE -> 24
      [] t = BACKGROUND -> 29
      [] t = CLASS_KW -> 6
      [] t = RN_DELEGATE -> 19
      [] t = CONTINUE_USER_ACTIVITY -> 38
      [] t = RETURN_KW -> 6
      [] OTHER -> TemplateWidth[t]

\* The template literal of the two lifecycle handlers
CLEANUP_METHODS ==
  <<
     "\n",
     " ", " ", "// Background notification to allow native modules to prepare for potential termination", "\n",
     " ", " ", "// Added by expo-plugin-worklet-cleanup", "\n",
     " ", " ", "public override func", " ", "applicationDidEnterBackground", "(_ application: UIApplication) {", "\n",
     " ", " ", " ", " ", "// Post notification that app is entering background", "\n",
     " ", " ", " ", " ", "// Native modules can listen to this to pause operations gracefully", "\n",
     " ", " ", " ", " ", "NotificationCenter.default.post(", "\n",
     " ", " ", " ", " ", " ", " ", "name: NSNotification.Name(\"RNAppDidEnterBackground\"),", "\n",
     " ", " ", " ", " ", " ", " ", "object: self", "\n",
     " ", " ", " ", " ", ")", "\n",
     " ", " ", " ", " ", "super.", "applicationDidEnterBackground", "(application)", "\n",
     " ", " ", "}", "\n",
     "\n",
     " ", " ", "// Cleanup on app termination to prevent worklet crashes during force-quit", "\n",
     " ", " ", "// Added by expo-plugin-worklet-cleanup", "\n",
     " ", " ", "// Note: This is NOT reliably called on iOS 13+ for app switcher kills", "\n",
     " ", " ", "public override func", " ", "applicationWillTerminate", "(_ application: UIApplication) {", "\n",
     " ", " ", " ", " ", "// Notify the bridge to invalidate and cancel pending worklet operations", "\n",
     " ", " ", " ", " ", "NotificationCenter.default.post(", "\n",
     " ", " ", " ", " ", " ", " ", "name: NSNotification.Name(\"RCTBridgeWillInvalidateNotification\"),", "\n",
     " ", " ", " ", " ", " ", " ", "object: self", "\n",
     " ", " ", " ", " ", ")", "\n",
     " ", " ", " ", " ", "super.", "applicationWillTerminate", "(application)", "\n",
     " ", " ", "}", "\n"
  >>

-----------------------------------------------------------------------------
(* String and RegExp primitives                                            *)

\* String.prototype.includes for one of the searched words
Includes(s, word) == \E i \in 1..Len(s) : s[i] = word

\* String.prototype.slice(from) with from 0-based
Slice(s, from) == SubSeq(s, from + 1, Len(s))

RECURSIVE CharsBefore(_, _)
\* Number of characters of the first n units of s
CharsBefore(s, n) == IF n = 0 THEN 0 ELSE CharsBefore(s, n - 1) + Width(s[n])

\* String.prototype.indexOf for one of the searched words: the 0-based
\* character offset of its first occurrence, -1 when there is none
IndexOf(s, word) ==
    LET hits == {i \in 1..Len(s) : s[i] = word}
    IN  IF hits = {} THEN -1
        ELSE CharsBefore(s, (CHOOSE i \in hits : \A j \in hits : i <= j) - 1)

RECURSIVE SkipSpace(_, _)
\* Greedy \s* from position j: the position of the first unit at or after j
\* that is not white space (Len(s) + 1 at the end of the text)
SkipSpace(s, j) ==
    IF j <= Len(s) /\ IsSpace(s[j]) THEN SkipSpace(s, j + 1) ELSE j

RECURSIVE NextBrace(_, _)
\* [^}]* from position j: the position of the first "}" at or after j
NextBrace(s, j) ==
    IF j <= Len(s) /\ s[j] # RB THEN NextBrace(s, j + 1) ELSE j

\* The result of a failed match (RegExp.prototype.exec returning null)
NoMatch == [index |-> 0, last |-> 0, g1 |-> <<>>, g2 |-> <<>>]

Min(S) == CHOOSE i \in S : \A j \in S : i <= j
Max(S) == CHOOSE i \in S : \A j \in S : i >= j

\* String.prototype.replace(regex, replacement) for a non-global regex whose
\* first match is m: the match is replaced, the rest is copied
Replace(s, m, replacement) ==
    SubSeq(s, 1, m.index - 1) \o replacement \o SubSeq(s, m.last + 1, Len(s))

-----------------------------------------------------------------------------
(* The three anchor patterns                                               *)

\* /(\n})\s*\n\s*(class ReactNativeDelegate)/ matched at position i: the
\* record of the match, NoMatch when it does not match there
ClassEndAt(s, i) ==
    LET k == SkipSpace(s, i + 2)
    IN  IF /\ i + 1 <= Len(s)
           /\ s[i] = NL
           /\ s[i + 1] = RB
           /\ \E m \in (i + 2)..(k - 1) : s[m] = NL
           /\ k + 1 <= Len(s)
           /\ s[k] = CLASS_KW
           /\ s[k + 1] = RN_DELEGATE
        THEN [index |-> i, last |-> k + 1,
              g1 |-> <<NL, RB>>, g2 |-> <<CLASS_KW, RN_DELEGATE>>]
        ELSE NoMatch

\* classEndRegex: the leftmost match
classEndRegex(s) ==
    LET starts == {i \in 1..Len(s) : ClassEndAt(s, i) # NoMatch}
    IN  IF starts = {} THEN NoMatch ELSE ClassEndAt(s, Min(starts))

\* return[^}]*}\s*\n followed by } with "return" at position r: the position
\* of that last }, 0 when the text does not continue that way
MethodEndAfter(s, r) ==
    LET b == NextBrace(s, r + 1)
        e == SkipSpace(s, b + 1)
    IN  IF /\ s[r] = RETURN_KW
           /\ b <= Len(s)
           /\ e > b + 1
           /\ s[e - 1] = NL
           /\ e <= Len(s)
           /\ s[e] = RB
        THEN e ELSE 0

\* /(continue userActivity: NSUserActivity,[\s\S]*?return[^}]*}\s*\n)(})/
\* matched at position i; the lazy [\s\S]*? stops at the first "return" from
\* which the rest of the pattern matches
LastMethodAt(s, i) ==
    LET returns == {r \in (i + 1)..Len(s) : MethodEndAfter(s, r) # 0}
    IN  IF s[i] = CONTINUE_USER_ACTIVITY /\ returns # {}
        THEN LET e == MethodEndAfter(s, Min(returns))
             IN  [index |-> i, last |-> e,
                  g1 |-> SubSeq(s, i, e - 1), g2 |-> <<RB>>]
        ELSE NoMatch

\* lastMethodRegex: the leftmost match
lastMethodRegex(s) ==
    LET starts == {i \in 1..Len(s) : LastMethodAt(s, i) # NoMatch}
    IN  IF starts = {} THEN NoMatch ELSE LastMethodAt(s, Min(starts))

\* /(}\s*\n)(}\s*(?:\n|$))/ matched at position i.  After the second } the
\* greedy \s* gives back units until it is followed by "\n" or stands at the
\* end of the text
GenericMethodEndAt(s, i) ==
    LET e == SkipSpace(s, i + 1)
        f == SkipSpace(s, e + 1)
        newlines == {m \in (e + 1)..(f - 1) : s[m] = NL}
        last == IF f = Len(s) + 1 THEN Len(s)
                ELSE IF newlines # {} THEN Max(newlines) ELSE 0
    IN  IF /\ s[i] = RB
           /\ e > i + 1
           /\ s[e - 1] = NL
           /\ e <= Len(s)
           /\ s[e] = RB
           /\ last # 0
        THEN [index |-> i, last |-> last,
              g1 |-> SubSeq(s, i, e - 1), g2 |-> SubSeq(s, e, last)]
        ELSE NoMatch

\* The generic pattern with the rightmost match taken
genericMethodEndRegex_Rightmost(s) ==
    LET starts == {i \in 1..Len(s) : GenericMethodEndAt(s, i) # NoMatch}
    IN  IF starts = {} THEN NoMatch ELSE GenericMethodEndAt(s, Max(starts))

\* genericMethodEndRegex: the leftmost match
genericMethodEndRegex(s) ==
    LET starts == {i \in 1..Len(s) : GenericMethodEndAt(s, i) # NoMatch}
    IN  IF starts = {} THEN NoMatch ELSE GenericMethodEndAt(s, Min(starts))

\* The number of characters after the generic match within which a class
\* declaration makes the match a false anchor
LookaheadBudget == 50

\* The check of the text after the match with >= in place of >
LooksLikeClassEnd_OffByOne(s, match) ==
    LET afterMatch == Slice(s, match.last)
    IN  \/ ~Includes(afterMatch, CLASS_KW)
        \/ IndexOf(afterMatch, CLASS_KW) >= LookaheadBudget

\* The text after the first generic match holds no "class ", or holds its
\* first one more than LookaheadBudget characters on
LooksLikeClassEnd(s, match) ==
    LET afterMatch == Slice(s, match.last)
    IN  \/ ~Includes(afterMatch, CLASS_KW)
        \/ IndexOf(afterMatch, CLASS_KW) > LookaheadBudget

-----------------------------------------------------------------------------
(* The plugin                                                              *)

\* One console.warn or console.log call: its level, its message and the
\* further arguments it is given
Warn(message, args) == [level |-> "warn", message |-> message, args |-> args]
Log(message, args) == [level |-> "log", message |-> message, args |-> args]

\* What one run of the mod leaves behind: the contents of the AppDelegate,
\* the return statement it left through and what it wrote to the console
Result(text, path, console) ==
    [contents |-> text, outcome |-> path, diagnostics |-> console]

\* The language check without the comparison
IsSwift_Always(lang) == TRUE

\* The language check of the mod
IsSwift(lang) == lang = "swift"

\* The search for the terminate handler with the name in the wrong case
hasTerminate_WrongCase(s) == Includes(s, "applicationwillterminate")

\* const hasTerminate
hasTerminate(s) == Includes(s, TERMINATE)

\* The search for the background handler with the name in the wrong case
hasBackground_WrongCase(s) == Includes(s, "applicationdidenterbackground")

\* const hasBackground
hasBackground(s) == Includes(s, BACKGROUND)

\* Strategy 1 with the methods written after the closing brace
Strategy1_AfterBrace(s) ==
    LET m == classEndRegex(s)
    IN  Replace(s, m, m.g1 \o CLEANUP_METHODS \o <<NL, NL>> \o m.g2)

\* Strategy 1: the methods go before the closing brace of AppDelegate, and
\* the brace and the ReactNativeDelegate declaration are written back with
\* one empty line between them
Strategy1(s) ==
    LET m == classEndRegex(s)
    IN  Replace(s, m, CLEANUP_METHODS \o m.g1 \o <<NL, NL>> \o m.g2)

\* Strategy 2 with the methods written after the closing brace that follows
\* the method
Strategy2_AfterClassBrace(s) ==
    LET m == lastMethodRegex(s)
    IN  Replace(s, m, m.g1 \o m.g2 \o CLEANUP_METHODS)

\* Strategy 2: the methods go between the continue userActivity method and
\* the closing brace that follows it
Strategy2(s) ==
    LET m == lastMethodRegex(s)
    IN  Replace(s, m, m.g1 \o CLEANUP_METHODS \o m.g2)

\* Strategy 3: the methods go between the two closing braces of the first
\* generic match
Strategy3(s) ==
    LET m == genericMethodEndRegex(s)
    IN  Replace(s, m, m.g1 \o CLEANUP_METHODS \o m.g2)

\* The anchor search with the continue userActivity pattern tried first
AnchorSearch_LastMethodFirst(s) ==
    IF lastMethodRegex(s) # NoMatch
    THEN Result(Strategy2(s), "applied-via-strategy-2",
                <<Log("Added cleanup methods to AppDelegate.swift (fallback strategy)", <<>>)>>)
    ELSE IF classEndRegex(s) # NoMatch
    THEN Result(Strategy1(s), "applied-via-strategy-1",
                <<Log("Added cleanup methods to AppDelegate.swift", <<>>)>>)
    ELSE IF /\ genericMethodEndRegex(s) # NoMatch
            /\ LooksLikeClassEnd(s, genericMethodEndRegex(s))
    THEN Result(Strategy3(s), "applied-via-strategy-3",
                <<Log("Added cleanup methods to AppDelegate.swift (generic strategy)", <<>>)>>)
    ELSE Result(s, "no-anchor-found",
                <<Warn("Could not find suitable insertion point in AppDelegate.swift", <<>>),
                  Warn("Please manually add the lifecycle methods to your AppDelegate", <<>>)>>)

\* The anchor search that applies strategy 3 without testing its pattern
AnchorSearch_UntestedGeneric(s) ==
    IF classEndRegex(s) # NoMatch
    THEN Result(Strategy1(s), "applied-via-strategy-1",
                <<Log("Added cleanup methods to AppDelegate.swift", <<>>)>>)
    ELSE IF lastMethodRegex(s) # NoMatch
    THEN Result(Strategy2(s), "applied-via-strategy-2",
                <<Log("Added cleanup methods to AppDelegate.swift (fallback strategy)", <<>>)>>)
    ELSE Result(IF genericMethodEndRegex(s) # NoMatch THEN Strategy3(s) ELSE s,
                "applied-via-strategy-3",
                <<Log("Added cleanup methods to AppDelegate.swift (generic strategy)", <<>>)>>)

\* The anchor search on a text that holds neither handler
AnchorSearch(s) ==
    IF classEndRegex(s) # NoMatch
    THEN Result(Strategy1(s), "applied-via-strategy-1",
                <<Log("Added cleanup methods to AppDelegate.swift", <<>>)>>)
    ELSE IF lastMethodRegex(s) # NoMatch
    THEN Result(Strategy2(s), "applied-via-strategy-2",
                <<Log("Added cleanup methods to AppDelegate.swift (fallback strategy)", <<>>)>>)
    ELSE IF /\ genericMethodEndRegex(s) # NoMatch
            /\ LooksLikeClassEnd(s, genericMethodEndRegex(s))
    THEN Result(Strategy3(s), "applied-via-strategy-3",
                <<Log("Added cleanup methods to AppDelegate.swift (generic strategy)", <<>>)>>)
    ELSE Result(s, "no-anchor-found",
                <<Warn("Could not find suitable insertion point in AppDelegate.swift", <<>>),
                  Warn("Please manually add the lifecycle methods to your AppDelegate", <<>>)>>)

\* The mod that withWorkletCleanup registers with withAppDelegate
withWorkletCleanup(lang, s) ==
    IF ~IsSwift(lang)
    THEN Result(s, "unsupported-dialect",
                <<Warn("Expected Swift AppDelegate, found:", <<lang>>),
                  Warn("Skipping modification. For Objective-C support, please open an issue.", <<>>)>>)
    ELSE IF hasTerminate(s) /\ hasBackground(s)
    THEN Result(s, "already-present",
                <<Log("Cleanup methods already exist, skipping", <<>>)>>)
    ELSE IF hasTerminate(s) \/ hasBackground(s)
    THEN Result(s, "partially-present",
                <<Log("Partial cleanup methods exist:",
                      <<[hasTerminate |-> hasTerminate(s),
                         hasBackground |-> hasBackground(s)]>>),
                  Log("Skipping to avoid duplication. Consider updating manually.", <<>>)>>)
    ELSE AnchorSearch(s)

-----------------------------------------------------------------------------
(* The AppDelegate files the mod is run on                                 *)

\* The longest run of white space between two parts of a generated file
MaxWs == 2

\* The language tags of an AppDelegate file
Languages == {"swift", "objc"}

RECURSIVE SeqsUpTo(_, _)
\* The sequences over S of length at most n
SeqsUpTo(S, n) ==
    IF n = 0 THEN {<<>>}
    ELSE LET shorter == SeqsUpTo(S, n - 1)
         IN  shorter \cup {Append(w, c) : w \in shorter, c \in S}

WhiteSpace == SeqsUpTo({NL, SP}, MaxWs)

\* n ordinary characters
Pad(n) == [i \in 1..n |-> OTHER_CHAR]

\* What precedes the methods of the class: the class header, with or
\* without a nested declaration closed before it
Headers ==
    {<<CLASS_KW, OTHER_CHAR, NL>>,
     <<OTHER_CHAR, RB, NL, RB, NL, CLASS_KW, OTHER_CHAR, NL>>}

\* The two handlers as the template writes them
BackgroundHandler == SubSeq(CLEANUP_METHODS, 1, 68)
TerminateHandler == SubSeq(CLEANUP_METHODS, 70, Len(CLEANUP_METHODS))

\* The lifecycle handlers the class already has: none, the one of a 1.x
\* release, the background one alone, or both
ExistingHandlers ==
    {<<>>, TerminateHandler, BackgroundHandler, CLEANUP_METHODS}

\* The last method of the class
LastMethods ==
    {<<>>,
     <<OTHER_CHAR, RB>>,
     <<CONTINUE_USER_ACTIVITY, OTHER_CHAR, RETURN_KW, OTHER_CHAR, RB>>,
     <<CONTINUE_USER_ACTIVITY, OTHER_CHAR, RB, RETURN_KW, SP, OTHER_CHAR, NL, RB>>,
     <<CONTINUE_USER_ACTIVITY, RETURN_KW, RB, OTHER_CHAR, RB>>}

\* What follows the closing brace of the class and the white space after it
Trailers ==
    {<<>>,
     <<OTHER_CHAR>>,
     <<CLASS_KW, RN_DELEGATE, OTHER_CHAR>>,
     <<CLASS_KW, OTHER_CHAR>>}
    \cup {Pad(n) \o <<CLASS_KW, OTHER_CHAR>> :
            n \in {10, LookaheadBudget - 1, LookaheadBudget, LookaheadBudget + 1}}

AppDelegates ==
    {h \o x \o m \o w1 \o <<RB>> \o w2 \o t :
        h \in Headers, x \in ExistingHandlers, m \in LastMethods,
        w1 \in WhiteSpace, w2 \in WhiteSpace, t \in Trailers}

-----------------------------------------------------------------------------
(* The state machine                                                       *)

Init ==
    /\ language \in Languages
    /\ contents \in AppDelegates
    /\ original = contents
    /\ input = contents
    /\ outcome = "none"
    /\ diagnostics = <<>>

\* One prebuild: the mod runs on the AppDelegate and its result is written
\* back
Prebuild ==
    LET r == withWorkletCleanup(language, contents)
    IN  /\ input' = contents
        /\ contents' = r.contents
        /\ outcome' = r.outcome
        /\ diagnostics' = r.diagnostics
        /\ UNCHANGED <<language, original>>

Next == Prebuild

Spec == Init /\ [][Next]_vars

\* The continue userActivity method written with the braces of its body: a
\* plain body; a body whose return sits in a nested block that closes right
\* before the method does; a body with a nested block before its return; a
\* body with one return in a nested block and one after it
BracedMethods ==
    {<<CONTINUE_USER_ACTIVITY, OTHER_CHAR, LB, OTHER_CHAR, RETURN_KW, OTHER_CHAR, NL, RB>>,
     <<CONTINUE_USER_ACTIVITY, OTHER_CHAR, LB, OTHER_CHAR, LB, RETURN_KW, OTHER_CHAR, RB, NL, RB>>,
     <<CONTINUE_USER_ACTIVITY, OTHER_CHAR, LB, LB, OTHER_CHAR, RB, RETURN_KW, OTHER_CHAR, NL, RB>>,
     <<CONTINUE_USER_ACTIVITY, OTHER_CHAR, LB, LB, RETURN_KW, OTHER_CHAR, RB, OTHER_CHAR,
       RETURN_KW, OTHER_CHAR, RB>>}

\* The AppDelegates whose last method is one of BracedMethods, alone or
\* followed by one more method
BracedAppDelegates ==
    {h \o m \o n \o w1 \o <<RB>> \o w2 \o t :
        h \in Headers, m \in BracedMethods,
        n \in {<<>>, <<NL, OTHER_CHAR, LB, RETURN_KW, OTHER_CHAR, RB>>},
        w1 \in WhiteSpace, w2 \in WhiteSpace, t \in Trailers}

InitBraced ==
    /\ language \in Languages
    /\ contents \in BracedAppDelegates
    /\ original = contents
    /\ input = contents
    /\ outcome = "none"
    /\ diagnostics = <<>>

SpecBraced == InitBraced /\ [][Next]_vars

-----------------------------------------------------------------------------
(* Vocabulary of the properties                                            *)

AppliedOutcomes ==
    {"applied-via-strategy-1", "applied-via-strategy-2", "applied-via-strategy-3"}

Outcomes ==
    AppliedOutcomes \cup
    {"unsupported-dialect", "already-present", "partially-present", "no-anchor-found"}

\* The mod has run at least once
Ran == outcome # "none"

\* The text holds neither handler name
MarkerFree(s) == ~Includes(s, TERMINATE) /\ ~Includes(s, BACKGROUND)

\* The text holds exactly one of the two handler names
OneMarker(s) == Includes(s, TERMINATE) # Includes(s, BACKGROUND)

\* The number of copies of CLEANUP_METHODS in the text
Copies(s) ==
    LET n == Len(CLEANUP_METHODS)
    IN  Cardinality({i \in 1..(Len(s) - n + 1) :
                        /\ s[i] = CLEANUP_METHODS[1]
                        /\ s[i + 1] = CLEANUP_METHODS[2]
                        /\ SubSeq(s, i, i + n - 1) = CLEANUP_METHODS})

\* t is s with CLEANUP_METHODS inserted at one position and nothing else
\* changed
InsertedOnce(s, t) ==
    \E p \in 0..Len(s) :
        t = SubSeq(s, 1, p) \o CLEANUP_METHODS \o SubSeq(s, p + 1, Len(s))

-----------------------------------------------------------------------------
(* C1 - idempotence                                                        *)

\* A run on a Swift text that the previous run patched, or found patched,
\* changes nothing and ends in already-present
RerunIsNoOp ==
    (language = "swift" /\ outcome \in AppliedOutcomes \cup {"already-present"})
        => (contents' = contents /\ outcome' = "already-present")

\* C1: on a Swift AppDelegate, once the mod has applied the patch (by any of
\* the three strategies) every further run leaves the contents unchanged and
\* ends in already-present; and after any number of runs that started from
\* contents without the two handler names, the contents hold at most one
\* copy of CLEANUP_METHODS.
C1_Idempotence ==
    [][/\ RerunIsNoOp
       /\ MarkerFree(original) => Copies(contents') <= 1]_vars

\* A second run has just ended in already-present on the output of a first
\* run that applied the patch to marker-free contents
C1_Witness ==
    /\ language = "swift"
    /\ MarkerFree(original)
    /\ input # original
    /\ contents = input
    /\ Copies(contents) = 1
    /\ outcome = "already-present"

-----------------------------------------------------------------------------
(* C2 - byte preservation                                                  *)

\* C2: after every run that applied the patch, the contents are the input
\* with CLEANUP_METHODS inserted at one position and no other character
\* added, removed or moved.
C2_BytePreservation ==
    (Ran /\ outcome \in AppliedOutcomes) => InsertedOnce(input, contents)

-----------------------------------------------------------------------------
(* C3 - partial-state safety                                               *)

\* C3: a run on a Swift text that holds exactly one of the two handler names
\* returns the text unchanged and ends in partially-present, whatever anchor
\* patterns the text matches.
C3_PartialStateSafety ==
    (Ran /\ language = "swift" /\ OneMarker(input))
        => (contents = input /\ outcome = "partially-present")

\* A run ended in partially-present on a text with one handler name that
\* also matches the pattern of strategy 1
C3_Witness ==
    /\ Ran
    /\ language = "swift"
    /\ OneMarker(input)
    /\ classEndRegex(input) # NoMatch
    /\ outcome = "partially-present"

-----------------------------------------------------------------------------
(* C4 - dialect gate                                                       *)

\* C4: a run on an AppDelegate whose language is not swift returns the
\* contents unchanged and ends in unsupported-dialect, whatever the
\* contents hold.
C4_DialectGate ==
    (Ran /\ language # "swift")
        => (contents = input /\ outcome = "unsupported-dialect")

\* A run ended in unsupported-dialect on marker-free contents that match the
\* pattern of strategy 1
C4_Witness ==
    /\ Ran
    /\ language # "swift"
    /\ MarkerFree(input)
    /\ classEndRegex(input) # NoMatch
    /\ outcome = "unsupported-dialect"

-----------------------------------------------------------------------------
(* C5 - strategy priority                                                  *)

\* C5: on marker-free Swift contents the first pattern that matches, in the
\* order 1, 2, 3, alone decides the result: when the pattern of strategy 1
\* matches, the result is that of strategy 1 whatever else matches; when it
\* does not and the pattern of strategy 2 matches, the result is that of
\* strategy 2 whatever the pattern of strategy 3 does.
C5_StrategyPriority ==
    (Ran /\ language = "swift" /\ MarkerFree(input))
        => /\ classEndRegex(input) # NoMatch
                => /\ outcome = "applied-via-strategy-1"
                   /\ contents = Strategy1(input)
           /\ (classEndRegex(input) = NoMatch /\ lastMethodRegex(input) # NoMatch)
                => /\ outcome = "applied-via-strategy-2"
                   /\ contents = Strategy2(input)

\* A run applied strategy 1 to contents that match all three patterns and on
\* which strategy 2 would have given another text
C5_Witness ==
    /\ Ran
    /\ language = "swift"
    /\ MarkerFree(input)
    /\ classEndRegex(input) # NoMatch
    /\ lastMethodRegex(input) # NoMatch
    /\ genericMethodEndRegex(input) # NoMatch
    /\ Strategy1(input) # Strategy2(input)
    /\ outcome = "applied-via-strategy-1"

-----------------------------------------------------------------------------
(* C6 - false-anchor avoidance                                             *)

\* A "class " starts at most LookaheadBudget characters after the match m
ClassWithinBudget(s, m) ==
    \E k \in (m.last + 1)..Len(s) :
        /\ s[k] = CLASS_KW
        /\ CharsBefore(Slice(s, m.last), k - m.last - 1) <= LookaheadBudget

\* C6: on marker-free Swift contents that match neither the pattern of
\* strategy 1 nor that of strategy 2, and whose first match of the generic
\* pattern is followed within the lookahead budget by "class ", the run
\* returns the contents unchanged and ends in no-anchor-found.
C6_FalseAnchorAvoidance ==
    (/\ Ran
     /\ language = "swift"
     /\ MarkerFree(input)
     /\ classEndRegex(input) = NoMatch
     /\ lastMethodRegex(input) = NoMatch
     /\ genericMethodEndRegex(input) # NoMatch
     /\ ClassWithinBudget(input, genericMethodEndRegex(input)))
        => (contents = input /\ outcome = "no-anchor-found")

\* A run declined a generic match that a class declaration follows exactly
\* 10 characters later
C6_Witness ==
    /\ Ran
    /\ language = "swift"
    /\ MarkerFree(input)
    /\ classEndRegex(input) = NoMatch
    /\ lastMethodRegex(input) = NoMatch
    /\ genericMethodEndRegex(input) # NoMatch
    /\ IndexOf(Slice(input, genericMethodEndRegex(input).last), CLASS_KW) = 10
    /\ contents = input
    /\ outcome = "no-anchor-found"

-----------------------------------------------------------------------------
(* C7 - no fatal outcome                                                   *)

\* None of the three strategies finds a safe anchor in the text
AllStrategiesFail(s) ==
    /\ classEndRegex(s) = NoMatch
    /\ lastMethodRegex(s) = NoMatch
    /\ \/ genericMethodEndRegex(s) = NoMatch
       \/ ClassWithinBudget(s, genericMethodEndRegex(s))

\* C7: every run ends in one of the seven return statements of the mod
\* (unsupported-dialect, already-present, partially-present,
\* no-anchor-found, applied via strategy 1, 2 or 3); in the four that do
\* not apply the patch the contents are unchanged; and when all three
\* strategies fail on marker-free Swift contents the run ends in
\* no-anchor-found with the warning to add the methods manually.
C7_NoFatalOutcome ==
    Ran => /\ outcome \in Outcomes
           /\ outcome \notin AppliedOutcomes => contents = input
           /\ (language = "swift" /\ MarkerFree(input) /\ AllStrategiesFail(input))
                => /\ outcome = "no-anchor-found"
                   /\ \E i \in 1..Len(diagnostics) :
                        /\ diagnostics[i].level = "warn"
                        /\ diagnostics[i].message =
                             "Please manually add the lifecycle methods to your AppDelegate"

\* A run on a class with an empty body ended in no-anchor-found
C7_Witness ==
    /\ Ran
    /\ language = "swift"
    /\ input = <<CLASS_KW, OTHER_CHAR, NL, RB>>
    /\ contents = input
    /\ outcome = "no-anchor-found"

-----------------------------------------------------------------------------
(* C8 - splice position of strategy 1                                      *)

\* Position i holds the line break and closing brace of a class, and only
\* white space with at least one line break separates the brace from the
\* ReactNativeDelegate declaration at position k
ClosesBeforeDelegate(s, i, k) ==
    /\ i >= 1
    /\ k + 1 <= Len(s)
    /\ s[i] = NL
    /\ s[i + 1] = RB
    /\ \A m \in (i + 2)..(k - 1) : IsSpace(s[m])
    /\ \E m \in (i + 2)..(k - 1) : s[m] = NL
    /\ s[k] = CLASS_KW
    /\ s[k + 1] = RN_DELEGATE

\* t is s with CLEANUP_METHODS put in front of the closing brace (and its
\* line break) at position i: what precedes the brace is kept, the brace is
\* kept, the declaration at position k of s follows the brace after white
\* space only and what follows the declaration is kept
SplicedBeforeBrace(s, t, i, k) ==
    LET n == Len(CLEANUP_METHODS)
    IN  /\ SubSeq(t, 1, i - 1) = SubSeq(s, 1, i - 1)
        /\ SubSeq(t, i, i + n - 1) = CLEANUP_METHODS
        /\ SubSeq(t, i + n, i + n + 1) = <<NL, RB>>
        /\ \E k2 \in (i + n + 2)..(Len(t) - 1) :
             /\ \A m \in (i + n + 2)..(k2 - 1) : IsSpace(t[m])
             /\ SubSeq(t, k2, Len(t)) = SubSeq(s, k, Len(s))

\* C8: on marker-free Swift contents in which the closing brace of the
\* primary class is followed, after white space with a line break, by the
\* ReactNativeDelegate declaration, the run applies strategy 1: both
\* handlers are inserted in front of that closing brace, the brace is kept,
\* and the declaration and everything after it follow the brace unchanged.
C8_Strategy1Splice ==
    (Ran /\ language = "swift" /\ MarkerFree(input))
        => \A i \in 1..Len(input) : \A k \in (i + 2)..Len(input) :
             (/\ ClosesBeforeDelegate(input, i, k)
              /\ \A j \in 1..(i - 1) : \A l \in (j + 2)..Len(input) :
                    ~ClosesBeforeDelegate(input, j, l))
                => /\ outcome = "applied-via-strategy-1"
                   /\ SplicedBeforeBrace(input, contents, i, k)
                   /\ hasTerminate(contents)
                   /\ hasBackground(contents)

\* A run applied strategy 1 to contents whose class has a last method
C8_Witness ==
    /\ Ran
    /\ language = "swift"
    /\ MarkerFree(input)
    /\ outcome = "applied-via-strategy-1"
    /\ \E i \in 4..Len(input) : \E k \in (i + 2)..Len(input) :
         /\ input[i - 1] = RB
         /\ ClosesBeforeDelegate(input, i, k)
         /\ SplicedBeforeBrace(input, contents, i, k)

-----------------------------------------------------------------------------
(* C9 - upgrade from 1.x                                                   *)

\* The AppDelegate of the Expo template with the handlers x already in the
\* class: the continue userActivity method is the last one and the
\* ReactNativeDelegate declaration follows the class after an empty line
TemplateWith(x) ==
    <<CLASS_KW, OTHER_CHAR, NL>> \o x
        \o <<CONTINUE_USER_ACTIVITY, OTHER_CHAR, RETURN_KW, OTHER_CHAR, RB>>
        \o <<NL, RB, NL, NL, CLASS_KW, RN_DELEGATE, OTHER_CHAR>>

\* The AppDelegates an app that used 1.x can have: regenerated from the
\* template, or still with the applicationWillTerminate handler of 1.x
UpgradedFrom1x == {TemplateWith(<<>>), TemplateWith(TerminateHandler)}

\* C9: after a run on the Swift AppDelegate of an app that used 1.x, be it
\* regenerated or still carrying the applicationWillTerminate handler of
\* 1.x, the AppDelegate has both handlers.
C9_UpgradeFrom1x ==
    (Ran /\ language = "swift" /\ original \in UpgradedFrom1x)
        => (hasTerminate(contents) /\ hasBackground(contents))

-----------------------------------------------------------------------------
(* C10 - severity of the diagnostics                                       *)

\* Every console call of the last run was made at the given level
AllAtLevel(level) ==
    /\ diagnostics # <<>>
    /\ \A i \in 1..Len(diagnostics) : diagnostics[i].level = level

\* C10: unsupported-dialect is reported by warnings that name the language
\* found, already-present by an informational message, partially-present
\* by warnings that tell which handler is present and which is missing,
\* and no-anchor-found by warnings with the instruction to add the methods
\* manually; a run reports nothing but the path it took.
C10_DiagnosticSeverity ==
    Ran => /\ outcome = "unsupported-dialect"
                => /\ AllAtLevel("warn")
                   /\ diagnostics[1].args = <<language>>
           /\ outcome = "already-present"
                => /\ AllAtLevel("log")
                   /\ Len(diagnostics) = 1
           /\ outcome = "partially-present"
                => /\ AllAtLevel("warn")
                   /\ diagnostics[1].args =
                        <<[hasTerminate |-> hasTerminate(input),
                           hasBackground |-> hasBackground(input)]>>
           /\ outcome = "no-anchor-found"
                => /\ AllAtLevel("warn")
                   /\ \E i \in 1..Len(diagnostics) :
                        diagnostics[i].message =
                            "Please manually add the lifecycle methods to your AppDelegate"
           /\ outcome \in AppliedOutcomes
                => /\ AllAtLevel("log")
                   /\ Len(diagnostics) = 1

-----------------------------------------------------------------------------
(* C11 - splice position of strategy 2                                     *)

RECURSIVE CloseOf(_, _, _)
\* The position of the } that brings the nesting depth back to 0, read from
\* position j at the given depth; 0 when the text ends before
CloseOf(s, j, depth) ==
    IF j > Len(s) THEN 0
    ELSE IF s[j] = LB THEN CloseOf(s, j + 1, depth + 1)
    ELSE IF s[j] = RB
         THEN IF depth = 1 THEN j ELSE CloseOf(s, j + 1, depth - 1)
    ELSE CloseOf(s, j + 1, depth)

\* The position of the closing brace of the method whose signature holds
\* position i: the brace that closes the first { after i; 0 when there is
\* none
OwnClose(s, i) ==
    LET opens == {o \in (i + 1)..Len(s) : s[o] = LB}
    IN  IF opens = {} THEN 0 ELSE CloseOf(s, Min(opens) + 1, 1)

\* The first group of the match m is the continue userActivity method with
\* its whole body: it runs from the signature to the method's own closing
\* brace and the white space after it
FullBodyMatched(s, m) ==
    LET c == OwnClose(s, m.index)
    IN  /\ c # 0
        /\ c < m.last
        /\ \A k \in (c + 1)..(m.last - 1) : IsSpace(s[k])

-----------------------------------------------------------------------------
(* C12 - strategy 3 decides on the first occurrence                        *)

\* An occurrence of the method-close/class-close pattern: a } at i, white
\* space that ends with a line break, a } at e, and then white space up to
\* position l, which is the end of the text or the last line break before
\* the next character that is not white space
Occurrence(s, i, e, l) ==
    /\ 1 <= i /\ i + 1 < e /\ e <= l /\ l <= Len(s)
    /\ s[i] = RB
    /\ \A k \in (i + 1)..(e - 1) : IsSpace(s[k])
    /\ s[e - 1] = NL
    /\ s[e] = RB
    /\ \A k \in (e + 1)..l : IsSpace(s[k])
    /\ \/ l = Len(s)
       \/ /\ l > e
          /\ s[l] = NL
          /\ \E f \in (l + 1)..Len(s) :
               /\ ~IsSpace(s[f])
               /\ \A k \in (l + 1)..(f - 1) : s[k] = SP

\* The occurrences of the pattern in the text
Occurrences(s) ==
    LET braces == {i \in 1..Len(s) : s[i] = RB}
    IN  {o \in braces \X braces \X (1..Len(s)) : Occurrence(s, o[1], o[2], o[3])}

\* The text after position l holds no "class ", or its first "class " starts
\* 51 characters or more after l
NoClassWithin50(s, l) ==
    LET classes == {k \in (l + 1)..Len(s) : s[k] = CLASS_KW}
    IN  \/ classes = {}
        \/ CharsBefore(Slice(s, l), Min(classes) - l - 1) >= 51

\* C12: on marker-free Swift contents that match neither the pattern of
\* strategy 1 nor that of strategy 2, the run applies strategy 3 exactly
\* when the generic pattern occurs and the text after its first occurrence
\* holds no "class " or holds its first one at a character offset of 51 or
\* more (50 or less declines); the methods are then inserted in front of
\* the second brace of that first occurrence; when the first occurrence is
\* declined the run ends in no-anchor-found with the contents unchanged,
\* whatever a later occurrence looks like.
C12_FirstOccurrenceDecides ==
    (/\ Ran
     /\ language = "swift"
     /\ MarkerFree(input)
     /\ classEndRegex(input) = NoMatch
     /\ lastMethodRegex(input) = NoMatch)
        => LET occs == Occurrences(input)
               first == CHOOSE o \in occs : \A q \in occs : o[1] <= q[1]
           IN  IF occs # {} /\ NoClassWithin50(input, first[3])
               THEN /\ outcome = "applied-via-strategy-3"
                    /\ contents = SubSeq(input, 1, first[2] - 1)
                                     \o CLEANUP_METHODS
                                     \o SubSeq(input, first[2], Len(input))
               ELSE /\ outcome = "no-anchor-found"
                    /\ contents = input

\* A run declined the first occurrence of the pattern and ended in
\* no-anchor-found although a later occurrence has no "class " within 50
\* characters after it
C12_Witness ==
    /\ Ran
    /\ language = "swift"
    /\ MarkerFree(input)
    /\ classEndRegex(input) = NoMatch
    /\ lastMethodRegex(input) = NoMatch
    /\ \E o \in Occurrences(input) : \E q \in Occurrences(input) :
         /\ o[1] < q[1]
         /\ \A r \in Occurrences(input) : o[1] <= r[1]
         /\ ~NoClassWithin50(input, o[3])
         /\ NoClassWithin50(input, q[3])
    /\ contents = input
    /\ outcome = "no-anchor-found"

====
